---- MODULE Spec2Model ----
(***************************************************************************)
(* tlslite/integration/httptlsconnection.py: the httplib adapter that      *)
(* replaces the HTTP connection's socket by a TLSConnection and runs a     *)
(* client handshake on it.                                                 *)
(*                                                                         *)
(* The state is the adapter objects (their fields and the position of the  *)
(* call running on them), the raw sockets and the TLSConnection objects.   *)
(* connect() is cut at its two blocking calls, sock.connect() and the      *)
(* handshake.  ClientHelper and TLSConnection are modules of the package   *)
(* that this file imports; they are modelled from the specification.       *)
(***************************************************************************)
EXTENDS Naturals, Sequences, FiniteSets, TLC

VARIABLES adapter, sockets, sessions

vars == <<adapter, sockets, sessions>>

(***************************************************************************)
(* Bounds and input domains.                                               *)
(***************************************************************************)
MaxSockets == 2

Adapters == {"a1"}

None == "None"
NoSock == 0

Hosts == {"example.test"}
Ports == {None, "8443"}
Stricts == {None, "strict"}
Usernames == {None, "alice"}
Passwords == {None, "secret"}
CertChains == {None, "chain"}
PrivateKeys == {None, "key"}
Fingerprints == {None, "fpA"}
SettingsValues == {None, "settings"}
ServerFingerprints == {"fpA", "fpB"}

CreateErrors == {"socket.error:create"}
ConnectErrors == {"socket.error:refused", "socket.timeout"}
SessionErrors == {"SessionError"}
AbortErrors == {"socket.error:closed"}

(***************************************************************************)
(* Python truthiness of an optional argument.                              *)
(***************************************************************************)
Truthy(x) == x # None

(***************************************************************************)
(* class attribute default_port                                            *)
(***************************************************************************)
default_port == "443"

SocketTimeout == 10

(***************************************************************************)
(* hasattr(sock, 'settimeout'): true of every Python since 2.3.            *)
(***************************************************************************)
HasSetTimeout == TRUE

NoArgs ==
  [host |-> None, port |-> None, username |-> None, password |-> None,
   certChain |-> None, privateKey |-> None, x509Fingerprint |-> None,
   settings |-> None]

NoParams ==
  [username |-> None, password |-> None, certChain |-> None,
   privateKey |-> None, x509Fingerprint |-> None, settings |-> None]

(***************************************************************************)
(* An adapter that has not been constructed yet.  state is the life of the *)
(* object, cls its class, sock the transport handle (a session id, NoSock  *)
(* for None).  pc, op, lsock and tlsConnection are the frame of the running  *)
(* call: its position, the outermost method, connect()'s local variable    *)
(* sock and the hook's parameter.                                          *)
(* args, ret and raised are history: the constructor's arguments, how the  *)
(* last connect() ended and the error its failing callee raised.           *)
(***************************************************************************)
NoAdapter ==
  [state |-> "unconstructed", cls |-> None, host |-> None, port |-> None,
   username |-> None, password |-> None, certChain |-> None,
   privateKey |-> None, x509Fingerprint |-> None, settings |-> None,
   sock |-> NoSock, pc |-> "idle", op |-> None, lsock |-> 0,
   tlsConnection |-> 0,
   args |-> NoArgs, ret |-> None, raised |-> None]

Init ==
  /\ adapter = [a \in Adapters |-> NoAdapter]
  /\ sockets = << >>
  /\ sessions = << >>

(***************************************************************************)
(* httplib.HTTPConnection.__init__: stores host and port (default_port     *)
(* when the port is omitted) and sets sock to None.                        *)
(***************************************************************************)
HTTPConnection_init(cls, host, port) ==
  [NoAdapter EXCEPT !.state = "constructed", !.cls = cls, !.host = host,
                    !.port = IF port = None THEN default_port ELSE port,
                    !.sock = NoSock]

(***************************************************************************)
(* HTTPBaseTLSConnection.__init__: both branches of the strict test call   *)
(* the base constructor with the same host and port.                       *)
(***************************************************************************)
HTTPBaseTLSConnection_init(cls, host, port, strict) ==
  IF strict = None
    THEN HTTPConnection_init(cls, host, port)
    ELSE HTTPConnection_init(cls, host, port)

(***************************************************************************)
(* ClientHelper.__init__ (tlslite/integration/clienthelper.py).  The       *)
(* username/password pair and the certChain/privateKey pair are each       *)
(* all-or-nothing, and the certificate arguments exclude the SRP           *)
(* arguments; anything else is a configuration error raised out of the     *)
(* constructor, so that no adapter object comes to exist.                  *)
(***************************************************************************)
PairingOK(username, password, certChain, privateKey) ==
  /\ Truthy(username) <=> Truthy(password)
  /\ Truthy(certChain) <=> Truthy(privateKey)

KindsExclusive(username, password, certChain, privateKey) ==
  ~ ( (Truthy(username) \/ Truthy(password))
      /\ (Truthy(certChain) \/ Truthy(privateKey)) )

ClientHelper_init(self, username, password, certChain, privateKey, x509Fingerprint, settings) ==
  IF /\ PairingOK(username, password, certChain, privateKey)
     /\ KindsExclusive(username, password, certChain, privateKey)
    THEN [self EXCEPT !.username = username, !.password = password,
                      !.certChain = certChain, !.privateKey = privateKey,
                      !.x509Fingerprint = x509Fingerprint,
                      !.settings = settings]
    ELSE [NoAdapter EXCEPT !.state = "rejected",
                           !.raised = "ConfigurationError"]

(***************************************************************************)
(* HTTPTLSConnection.__init__: the base constructor with host and port,    *)
(* then ClientHelper.__init__ with the six credential arguments in order.  *)
(***************************************************************************)
HTTPTLSConnection_init_unchecked(host, port, username, password, certChain, privateKey, x509Fingerprint, settings) ==
  [HTTPBaseTLSConnection_init("HTTPTLSConnection", host, port, None)
     EXCEPT !.username = username, !.password = password,
            !.certChain = certChain, !.privateKey = privateKey,
            !.x509Fingerprint = x509Fingerprint, !.settings = settings]

HTTPTLSConnection_init_nofp(host, port, username, password, certChain, privateKey, x509Fingerprint, settings) ==
  ClientHelper_init(
    HTTPBaseTLSConnection_init("HTTPTLSConnection", host, port, None),
    username, password, certChain, privateKey, None, settings)

HTTPTLSConnection_init(host, port, username, password, certChain, privateKey, x509Fingerprint, settings) ==
  ClientHelper_init(
    HTTPBaseTLSConnection_init("HTTPTLSConnection", host, port, None),
    username, password, certChain, privateKey, x509Fingerprint, settings)

(***************************************************************************)
(* The server behind a connected socket: the fingerprint of the            *)
(* certificate it presents, whether the SRP exchange with it succeeds, and *)
(* whether the rest of the negotiation (protocol, I/O) goes through.       *)
(***************************************************************************)
NoPeer == [fp |-> None, srpOk |-> TRUE, ioOk |-> TRUE]

Peers == [fp : ServerFingerprints, srpOk : BOOLEAN, ioOk : BOOLEAN]

(***************************************************************************)
(* The servers an adapter can tell apart: the SRP answer counts only for   *)
(* an adapter given a username, the presented fingerprint only for one     *)
(* given a fingerprint to pin, and the negotiation only for one that handshakes. *)
(***************************************************************************)
PeersFor(self) ==
  { peer \in Peers :
      /\ peer.srpOk \/ Truthy(self.args.username)
      /\ peer.fp = "fpA" \/ Truthy(self.args.x509Fingerprint)
      /\ peer.ioOk \/ self.cls = "HTTPTLSConnection" }

(***************************************************************************)
(* sock = socket.socket(AF_INET, SOCK_STREAM), with settimeout(10) where   *)
(* the platform has it: a new socket object, owned by the calling adapter. *)
(***************************************************************************)
socket_socket_shared(socks, a, hasSetTimeout) ==
  IF socks # << >>
    THEN socks
    ELSE Append(socks, [owner |-> a, state |-> "new",
                        timeout |-> IF hasSetTimeout THEN SocketTimeout ELSE 0,
                        peer |-> NoPeer])

socket_socket_pooled(socks, a, hasSetTimeout) ==
  IF \E i \in 1..Len(socks) : socks[i].owner = a
    THEN socks
    ELSE Append(socks, [owner |-> a, state |-> "new",
                        timeout |-> IF hasSetTimeout THEN SocketTimeout ELSE 0,
                        peer |-> NoPeer])

socket_socket(socks, a, hasSetTimeout) ==
  Append(socks, [owner |-> a, state |-> "new",
                 timeout |-> IF hasSetTimeout THEN SocketTimeout ELSE 0,
                 peer |-> NoPeer])

(***************************************************************************)
(* TLSConnection(sock): a session wrapping one raw socket, not yet         *)
(* handshaken.  hookCalls, handshakeOps, data and refused are history: the *)
(* hook invocations and client handshakes it has seen, whether HTTP bytes  *)
(* were sent or received through it, and whether an HTTP read or write was *)
(* handed to it while it was no byte stream.                               *)
(***************************************************************************)
TLSConnection(sock, a) ==
  [sock |-> sock, owner |-> a, status |-> "new", hookCalls |-> 0,
   handshakeOps |-> 0, params |-> NoParams, closed |-> FALSE, data |-> FALSE,
   refused |-> FALSE]

(***************************************************************************)
(* ClientHelper._handshake: one client handshake on the session, with the  *)
(* credentials that are present, the fingerprint and the settings.         *)
(***************************************************************************)
ClientHelper_handshake(self, tlsConnection) ==
  [tlsConnection EXCEPT
     !.handshakeOps = @ + 1,
     !.status = "handshaking",
     !.params = [username |-> self.username, password |-> self.password,
                 certChain |-> self.certChain,
                 privateKey |-> self.privateKey,
                 x509Fingerprint |-> self.x509Fingerprint,
                 settings |-> self.settings]]

(***************************************************************************)
(* The checks of a client handshake that fail against a server: each one   *)
(* that was asked for and does not pass.                                   *)
(***************************************************************************)
HandshakeFailures(params, peer) ==
  (IF peer.ioOk THEN {} ELSE {"TLSError"})
  \cup (IF Truthy(params.username) /\ ~peer.srpOk
          THEN {"TLSAuthenticationError"} ELSE {})
  \cup (IF Truthy(params.x509Fingerprint) /\ peer.fp # params.x509Fingerprint
          THEN {"TLSFingerprintError"} ELSE {})

(***************************************************************************)
(* HTTPTLSConnection._handshake delegates to ClientHelper._handshake.      *)
(***************************************************************************)
HTTPTLSConnection_handshake_twice(self, tlsConnection) ==
  ClientHelper_handshake(self, ClientHelper_handshake(self, tlsConnection))

HTTPTLSConnection_handshake(self, tlsConnection) ==
  ClientHelper_handshake(self, tlsConnection)

(***************************************************************************)
(* HTTPBaseTLSConnection._handshake: the abstract hook.  Its value is how  *)
(* the call ends: the exception it raises, or None when it returns.        *)
(***************************************************************************)
HTTPBaseTLSConnection_handshake_pass(self, tlsConnection) == None

HTTPBaseTLSConnection_handshake(self, tlsConnection) == "NotImplementedError"

(***************************************************************************)
(* Which _handshake the call self._handshake(...) reaches: the override of *)
(* HTTPTLSConnection, or the base method, which raises.                    *)
(***************************************************************************)
handshake_overridden_never(self) == FALSE

handshake_overridden(self) == self.cls = "HTTPTLSConnection"

(***************************************************************************)
(* connect() holds no try/except: what a callee raises is what connect()   *)
(* raises, and a hook that returns makes connect() return.                 *)
(***************************************************************************)
connect_propagate_converted(E) == "HTTPException"

connect_propagate(E) == E

connect_raise_retries(self, E) == [self EXCEPT !.raised = E]

connect_raise_clears(self, E) ==
  [self EXCEPT !.pc = "idle", !.op = None, !.lsock = 0, !.tlsConnection = 0,
               !.sock = NoSock, !.ret = connect_propagate(E), !.raised = E]

connect_raise(self, E) ==
  [self EXCEPT !.pc = "idle", !.op = None, !.lsock = 0, !.tlsConnection = 0,
               !.ret = connect_propagate(E), !.raised = E]

connect_return(self) ==
  [self EXCEPT !.pc = "idle", !.op = None, !.lsock = 0, !.tlsConnection = 0,
               !.ret = "ok", !.raised = None]

(***************************************************************************)
(* self.sock = TLSConnection(sock): the session becomes the transport      *)
(* handle before the hook runs.                                            *)
(***************************************************************************)
connect_install_default_port(self, sid) ==
  [self EXCEPT !.sock = sid, !.port = default_port]

connect_install_skipped(self, sid) == self

connect_install(self, sid) == [self EXCEPT !.sock = sid]

(***************************************************************************)
(* Construction of an adapter: the abstract base class (or a subclass      *)
(* that leaves the hook alone), or HTTPTLSConnection.                      *)
(***************************************************************************)
BaseArgs == [host : Hosts, port : Ports, username : {None}, password : {None}, certChain : {None}, privateKey : {None}, x509Fingerprint : {None}, settings : {None}]

TLSArgs == [host : Hosts, port : Ports, username : Usernames, password : Passwords, certChain : CertChains, privateKey : PrivateKeys, x509Fingerprint : Fingerprints, settings : SettingsValues]

Construct_Base(a) ==
  /\ adapter[a].state = "unconstructed"
  /\ \E g \in BaseArgs, strict \in Stricts :
       adapter' = [adapter EXCEPT ![a] =
         [HTTPBaseTLSConnection_init("HTTPBaseTLSConnection", g.host, g.port,
                                     strict)
            EXCEPT !.args = g]]
  /\ UNCHANGED <<sockets, sessions>>

Construct_TLS_eager(a) ==
  /\ adapter[a].state = "unconstructed"
  /\ \E g \in TLSArgs :
       adapter' = [adapter EXCEPT ![a] =
         [HTTPTLSConnection_init(g.host, g.port, g.username, g.password,
                                 g.certChain, g.privateKey,
                                 g.x509Fingerprint, g.settings)
            EXCEPT !.args = g]]
  /\ sockets' = Append(sockets, [owner |-> a, state |-> "connected",
                                 timeout |-> 0, peer |-> NoPeer])
  /\ UNCHANGED sessions

Construct_TLS(a) ==
  /\ adapter[a].state = "unconstructed"
  /\ \E g \in TLSArgs :
       adapter' = [adapter EXCEPT ![a] =
         [HTTPTLSConnection_init(g.host, g.port, g.username, g.password,
                                 g.certChain, g.privateKey,
                                 g.x509Fingerprint, g.settings)
            EXCEPT !.args = g]]
  /\ UNCHANGED <<sockets, sessions>>

(***************************************************************************)
(* connect(), up to its first blocking call: the socket is created (that   *)
(* may fail) and sock.connect((host, port)) is entered.  op is the method  *)
(* the caller invoked: connect() itself, or send() that found no socket.   *)
(***************************************************************************)
connect_begin(a, op) ==
  \/ /\ \E E \in CreateErrors :
           adapter' = [adapter EXCEPT ![a] =
                         connect_raise([adapter[a] EXCEPT !.op = op], E)]
     /\ UNCHANGED <<sockets, sessions>>
  \/ /\ Len(sockets) < MaxSockets
     /\ sockets' = socket_socket(sockets, a, HasSetTimeout)
     /\ adapter' = [adapter EXCEPT ![a] =
                      [adapter[a] EXCEPT !.pc = "sock_connect", !.op = op,
                                         !.lsock = Len(sockets'),
                                         !.ret = None, !.raised = None]]
     /\ UNCHANGED sessions

Connect(a) ==
  /\ adapter[a].state = "constructed"
  /\ adapter[a].pc = "idle"
  /\ connect_begin(a, "connect")

(***************************************************************************)
(* sock.connect() raises: connect() ends there, the local socket is        *)
(* dropped, self.sock is what it was.  On a socket that was closed under   *)
(* the call, the call raises the error of a closed socket.                 *)
(***************************************************************************)
connect_transport_error(a) ==
  /\ adapter[a].pc = "sock_connect"
  /\ LET closed == sockets[adapter[a].lsock].state = "closed"
     IN  /\ \E E \in (IF closed THEN AbortErrors ELSE ConnectErrors) :
              adapter' = [adapter EXCEPT ![a] = connect_raise(adapter[a], E)]
         /\ sockets' = IF closed
                         THEN sockets
                         ELSE [sockets EXCEPT ![adapter[a].lsock].state = "failed"]
  /\ UNCHANGED sessions

(***************************************************************************)
(* sock.connect() returns and TLSConnection(sock) raises: connect() ends   *)
(* with the connected socket in its dropped local variable.                *)
(***************************************************************************)
connect_session_error(a) ==
  /\ adapter[a].pc = "sock_connect"
  /\ sockets[adapter[a].lsock].state = "new"
  /\ sockets' = [sockets EXCEPT ![adapter[a].lsock].state = "connected"]
  /\ \E E \in SessionErrors :
       adapter' = [adapter EXCEPT ![a] = connect_raise(adapter[a], E)]
  /\ UNCHANGED sessions

(***************************************************************************)
(* sock.connect() returns, the socket is wrapped, the session is stored in *)
(* self.sock and self._handshake(self.sock) is called.  The base hook      *)
(* raises NotImplementedError; the override issues the client handshake    *)
(* and blocks in it.                                                       *)
(***************************************************************************)
connect_handshake(a) ==
  /\ adapter[a].pc = "sock_connect"
  /\ sockets[adapter[a].lsock].state = "new"
  /\ \E peer \in PeersFor(adapter[a]) :
       sockets' = [sockets EXCEPT ![adapter[a].lsock].state = "connected",
                                  ![adapter[a].lsock].peer = peer]
  /\ LET sid == Len(sessions) + 1
         installed == connect_install(adapter[a], sid)
         arg == [TLSConnection(adapter[a].lsock, a) EXCEPT !.hookCalls = @ + 1]
     IN  IF handshake_overridden(installed)
           THEN /\ sessions' = Append(sessions,
                                  HTTPTLSConnection_handshake(installed, arg))
                /\ adapter' = [adapter EXCEPT ![a] =
                                 [installed EXCEPT !.pc = "handshake",
                                                   !.tlsConnection = installed.sock]]
           ELSE /\ sessions' = Append(sessions, arg)
                /\ LET E == HTTPBaseTLSConnection_handshake(installed, arg)
                   IN  adapter' = [adapter EXCEPT ![a] =
                                     IF E = None
                                       THEN connect_return(installed)
                                       ELSE connect_raise(installed, E)]

(***************************************************************************)
(* The client handshake ends.  With every requested check passed the       *)
(* session becomes a byte stream and connect() returns (and a send() that  *)
(* opened the connection writes its data); otherwise one of the failed     *)
(* checks is raised through the hook and connect().  Whether a failed      *)
(* session closes its raw socket is left open.  On a socket that was       *)
(* closed under the handshake, the handshake raises the error of a closed  *)
(* socket.                                                                 *)
(***************************************************************************)
handshake_return(a) ==
  /\ adapter[a].pc = "handshake"
  /\ LET sid == adapter[a].tlsConnection
         failures == IF sockets[sessions[sid].sock].state = "closed"
                       THEN AbortErrors
                       ELSE HandshakeFailures(sessions[sid].params,
                                              sockets[sessions[sid].sock].peer)
     IN  IF failures = {}
           THEN /\ sessions' = [sessions EXCEPT
                                  ![sid].status = "ok",
                                  ![sid].data = (@ \/ adapter[a].op = "send")]
                /\ adapter' = [adapter EXCEPT ![a] = connect_return(adapter[a])]
                /\ UNCHANGED sockets
           ELSE /\ sessions' = [sessions EXCEPT ![sid].status = "failed"]
                /\ \E E \in failures :
                     adapter' = [adapter EXCEPT ![a] =
                                   connect_raise(adapter[a], E)]
                /\ \E closes \in BOOLEAN :
                     sockets' = IF closes
                       THEN [sockets EXCEPT ![sessions[sid].sock].state = "closed"]
                       ELSE sockets

(***************************************************************************)
(* A read or write of HTTP bytes on a session: it goes through on a        *)
(* handshaken byte stream, and is refused on anything else.                *)
(***************************************************************************)
session_io(sess, sid) ==
  IF sess[sid].status = "ok" /\ ~sess[sid].closed
    THEN [sess EXCEPT ![sid].data = TRUE]
    ELSE [sess EXCEPT ![sid].refused = TRUE]

(***************************************************************************)
(* httplib.HTTPConnection.send: with no socket it connects first           *)
(* (auto_open); then the data goes to self.sock.sendall, which a session   *)
(* accepts only as a handshaken byte stream.                               *)
(***************************************************************************)
Send(a) ==
  /\ adapter[a].state = "constructed"
  /\ adapter[a].pc = "idle"
  /\ IF adapter[a].sock = NoSock
       THEN connect_begin(a, "send")
       ELSE LET sid == adapter[a].sock
            IN  /\ sessions' = session_io(sessions, sid)
                /\ UNCHANGED <<adapter, sockets>>

(***************************************************************************)
(* Reading the response from self.sock (there is nothing to read from     *)
(* with no socket).                                                        *)
(***************************************************************************)
Recv(a) ==
  /\ adapter[a].state = "constructed"
  /\ adapter[a].pc = "idle"
  /\ adapter[a].sock # NoSock
  /\ sessions' = session_io(sessions, adapter[a].sock)
  /\ UNCHANGED <<adapter, sockets>>

(***************************************************************************)
(* httplib.HTTPConnection.close: closes self.sock, which closes the raw    *)
(* socket under the session, and sets self.sock to None.                   *)
(***************************************************************************)
Close(a) ==
  /\ adapter[a].state = "constructed"
  /\ adapter[a].pc = "idle"
  /\ adapter[a].sock # NoSock
  /\ LET sid == adapter[a].sock
     IN  /\ sessions' = [sessions EXCEPT ![sid].closed = TRUE]
         /\ sockets' = [sockets EXCEPT ![sessions[sid].sock].state = "closed"]
  /\ adapter' = [adapter EXCEPT ![a].sock = NoSock]

Next ==
  \E a \in Adapters :
    \/ Construct_Base(a)
    \/ Construct_TLS(a)
    \/ Connect(a)
    \/ connect_transport_error(a)
    \/ connect_session_error(a)
    \/ connect_handshake(a)
    \/ handshake_return(a)
    \/ Send(a)
    \/ Recv(a)
    \/ Close(a)

Spec == Init /\ [][Next]_vars

(***************************************************************************)
(* Several adapters used at once, each by its own thread: the steps of     *)
(* their calls interleave.  ConcArgs are the credential choices the        *)
(* handshake tells apart: SRP or none, a pinned fingerprint or none.  Of   *)
(* the two adapters one is anonymous and the other pins a fingerprint, so  *)
(* that their sessions differ in what they were handshaken with.           *)
(***************************************************************************)
ConcAdapters == {"a1", "a2"}

ConcArgs ==
  {g \in TLSArgs :
     /\ g.port = None /\ g.settings = None
     /\ g.certChain = None /\ g.privateKey = None
     /\ Truthy(g.username) <=> Truthy(g.password)}

ConcArgsOf(a) ==
  {g \in ConcArgs :
     /\ ~Truthy(g.username)
     /\ Truthy(g.x509Fingerprint) <=> a = "a2"}

InitConc ==
  /\ adapter = [a \in ConcAdapters |-> NoAdapter]
  /\ sockets = << >>
  /\ sessions = << >>

Construct_Conc(a) ==
  /\ adapter[a].state = "unconstructed"
  /\ \E g \in ConcArgsOf(a) :
       adapter' = [adapter EXCEPT ![a] =
         [HTTPTLSConnection_init(g.host, g.port, g.username, g.password,
                                 g.certChain, g.privateKey,
                                 g.x509Fingerprint, g.settings)
            EXCEPT !.args = g]]
  /\ UNCHANGED <<sockets, sessions>>

NextConc ==
  \E a \in ConcAdapters :
    \/ Construct_Conc(a)
    \/ Connect(a)
    \/ connect_transport_error(a)
    \/ connect_session_error(a)
    \/ connect_handshake(a)
    \/ handshake_return(a)
    \/ Send(a)
    \/ Recv(a)
    \/ Close(a)

SpecConc == InitConc /\ [][NextConc]_vars

(***************************************************************************)
(* Abort by close: while connect() is blocked in sock.connect() or in the  *)
(* handshake, another thread closes the raw socket under it.  A blocked    *)
(* call ends: the socket has a timeout, and a closed socket fails the call *)
(* on it.                                                                  *)
(***************************************************************************)
AbortClose(a) ==
  /\ adapter[a].pc \in {"sock_connect", "handshake"}
  /\ sockets[adapter[a].lsock].state # "closed"
  /\ sockets' = [sockets EXCEPT ![adapter[a].lsock].state = "closed"]
  /\ UNCHANGED <<adapter, sessions>>

BlockedCallEnds(a) ==
  \/ connect_transport_error(a)
  \/ connect_session_error(a)
  \/ connect_handshake(a)
  \/ handshake_return(a)

Construct_Abort(a) ==
  /\ adapter[a].state = "unconstructed"
  /\ \E g \in ConcArgs :
       adapter' = [adapter EXCEPT ![a] =
         [HTTPTLSConnection_init(g.host, g.port, g.username, g.password,
                                 g.certChain, g.privateKey,
                                 g.x509Fingerprint, g.settings)
            EXCEPT !.args = g]]
  /\ UNCHANGED <<sockets, sessions>>

NextAbort ==
  \E a \in Adapters :
    \/ Construct_Abort(a)
    \/ Connect(a)
    \/ connect_transport_error(a)
    \/ connect_session_error(a)
    \/ connect_handshake(a)
    \/ handshake_return(a)
    \/ Send(a)
    \/ Recv(a)
    \/ Close(a)
    \/ AbortClose(a)

SpecAbort ==
  /\ Init
  /\ [][NextAbort]_vars
  /\ \A a \in Adapters : WF_vars(BlockedCallEnds(a))

(***************************************************************************)
(* Vocabulary of the properties.                                           *)
(***************************************************************************)
SocketIds == 1..Len(sockets)

SessionIds == 1..Len(sessions)

Idle(a) == adapter[a].state = "constructed" /\ adapter[a].pc = "idle"

Failed(a) == Idle(a) /\ adapter[a].ret \notin {None, "ok"}

PeerOf(s) == sockets[sessions[s].sock].peer

(* A step in which a call of connect() on a ends (returns or raises).      *)
ConnectEnds(a) ==
  /\ adapter[a].state = "constructed"
  /\ adapter'[a].pc = "idle"
  /\ adapter'[a].ret # None
  /\ adapter[a].pc # "idle" \/ adapter'[a].ret # adapter[a].ret

(***************************************************************************)
(* C1: every call of connect() on an HTTPTLSConnection (whose credentials  *)
(* satisfy the pairing, or it would not exist) ends either returned, with  *)
(* a handshaken Secure Session as the transport handle, or raised, with    *)
(* the transport handle holding no session that is not a handshaken byte   *)
(* stream (no half-open session, and through it no live raw socket, is     *)
(* kept).                                                                  *)
(***************************************************************************)
C1_ConnectAllOrNothing ==
  [][\A a \in Adapters :
       ConnectEnds(a) /\ adapter[a].cls = "HTTPTLSConnection" =>
         LET self == adapter'[a]
         IN  IF self.ret = "ok"
               THEN /\ self.sock # NoSock
                    /\ sessions'[self.sock].status = "ok"
               ELSE \/ self.sock = NoSock
                    \/ sessions'[self.sock].status = "ok"]_vars

(***************************************************************************)
(* C2: an adapter whose arguments break the pairing of username/password   *)
(* or of certChain/privateKey is rejected by the constructor with a        *)
(* configuration error, and no socket and no session ever exists for it.   *)
(***************************************************************************)
PairingBroken(g) == ~PairingOK(g.username, g.password, g.certChain, g.privateKey)

C2_BadPairingFailsFast ==
  \A a \in Adapters :
    PairingBroken(adapter[a].args) =>
      /\ adapter[a].state = "rejected"
      /\ adapter[a].raised = "ConfigurationError"
      /\ adapter[a].sock = NoSock /\ adapter[a].pc = "idle"
      /\ \A k \in SocketIds : sockets[k].owner # a
      /\ \A s \in SessionIds : sessions[s].owner # a

C2_Witness ==
  \E a \in Adapters :
    /\ adapter[a].state = "rejected"
    /\ adapter[a].args.username = "alice"
    /\ adapter[a].args.password = None

(***************************************************************************)
(* C3: every connect() works on a socket and a session of its own: no raw  *)
(* socket is wrapped by two sessions, the socket of a running connect() is *)
(* wrapped by no earlier session, each session wraps a socket of its own   *)
(* adapter, and the parameters of each handshake are the adapter's         *)
(* credentials and nothing taken from an earlier session.                  *)
(***************************************************************************)
C3_ReconnectIsFresh ==
  /\ \A s, t \in SessionIds : s # t => sessions[s].sock # sessions[t].sock
  /\ \A s \in SessionIds : sockets[sessions[s].sock].owner = sessions[s].owner
  /\ \A a \in Adapters :
       adapter[a].pc = "sock_connect" =>
         /\ sockets[adapter[a].lsock].state = "new"
         /\ \A s \in SessionIds : sessions[s].sock # adapter[a].lsock
  /\ \A s \in SessionIds :
       sessions[s].handshakeOps > 0 =>
         LET g == adapter[sessions[s].owner].args
         IN  sessions[s].params =
               [username |-> g.username, password |-> g.password,
                certChain |-> g.certChain, privateKey |-> g.privateKey,
                x509Fingerprint |-> g.x509Fingerprint,
                settings |-> g.settings]

C3_Witness ==
  \E s, t \in SessionIds :
    /\ s < t
    /\ sessions[s].owner = sessions[t].owner
    /\ sessions[s].handshakeOps = 1 /\ sessions[t].handshakeOps = 1
    /\ sessions[s].status = "ok" /\ sessions[t].status = "ok"

HandshakeEnded(s) ==
  /\ sessions[s].handshakeOps > 0
  /\ adapter[sessions[s].owner].tlsConnection # s

FingerprintMismatch(s) ==
  LET g == adapter[sessions[s].owner].args
  IN  /\ Truthy(g.x509Fingerprint)
      /\ HandshakeEnded(s)
      /\ PeerOf(s).ioOk
      /\ PeerOf(s).fp # g.x509Fingerprint

(***************************************************************************)
(* C5 as stated: after a connect() that met a fingerprint mismatch the     *)
(* connect() has failed and no HTTP read or write of that adapter          *)
(* succeeds, on that session or on any session it opens later.             *)
(***************************************************************************)
C5_NoIOEverAfterMismatch ==
  \A s, t \in SessionIds :
    (sessions[s].owner = sessions[t].owner /\ s <= t /\ FingerprintMismatch(s))
      => sessions[s].status = "failed" /\ ~sessions[t].data

(***************************************************************************)
(* C5 amended: a connect() that meets a fingerprint mismatch fails and no  *)
(* HTTP read or write succeeds on its session; HTTP bytes move only on a   *)
(* session whose own handshake succeeded, against a server that presented  *)
(* the pinned fingerprint when one was given.                              *)
(***************************************************************************)
C5_NoIOAfterMismatchUntilReconnect ==
  /\ \A s \in SessionIds :
       FingerprintMismatch(s) => sessions[s].status = "failed" /\ ~sessions[s].data
  /\ \A t \in SessionIds :
       sessions[t].data =>
         /\ sessions[t].status = "ok"
         /\ ~FingerprintMismatch(t)
  /\ \A a \in Adapters :
       (Failed(a) /\ adapter[a].raised = "TLSFingerprintError"
          /\ adapter[a].sock # NoSock) =>
           /\ sessions[adapter[a].sock].status = "failed"
           /\ PeerOf(adapter[a].sock).fp # adapter[a].args.x509Fingerprint

C5_Witness ==
  \E s \in SessionIds :
    /\ FingerprintMismatch(s)
    /\ sessions[s].status = "failed"
    /\ sessions[s].refused
    /\ adapter[sessions[s].owner].ret = "TLSFingerprintError"

(***************************************************************************)
(* C6: on the sessions of an HTTPTLSConnection, HTTP bytes move only after *)
(* the hook has run on the session and its handshake has succeeded, and no *)
(* HTTP read or write is ever handed to a session that is not handshaken   *)
(* (after a failed connect() the operation meets the connect failure, not  *)
(* the session).                                                           *)
(***************************************************************************)
C6_NoDataBeforeHandshake ==
  \A s \in SessionIds :
    adapter[sessions[s].owner].cls = "HTTPTLSConnection" =>
      /\ sessions[s].data =>
           /\ sessions[s].hookCalls >= 1
           /\ sessions[s].status = "ok"
           /\ sockets[sessions[s].sock].state \in {"connected", "closed"}
      /\ ~sessions[s].refused

(***************************************************************************)
(* C7: a connect() that fails raises the very error its failing callee     *)
(* raised and ends there; while a connect() runs its adapter opens no      *)
(* further socket, and while its handshake runs no further session is      *)
(* made and no further handshake issued; a session gets at most one.       *)
(***************************************************************************)
OwnSockets(socks, a) == {k \in 1..Len(socks) : socks[k].owner = a}

HandshakesOf(sess, a) == {<<s, sess[s].handshakeOps>> : s \in {t \in 1..Len(sess) : sess[t].owner = a}}

C7_ErrorsPassThroughNoRetry ==
  [][\A a \in Adapters :
       /\ adapter[a].pc # "idle" =>
            OwnSockets(sockets', a) = OwnSockets(sockets, a)
       /\ adapter[a].pc = "handshake" =>
            HandshakesOf(sessions', a) = HandshakesOf(sessions, a)
       /\ \A s \in 1..Len(sessions') : sessions'[s].handshakeOps <= 1
       /\ (ConnectEnds(a) /\ adapter'[a].ret # "ok") =>
            /\ adapter'[a].ret = adapter'[a].raised
            /\ adapter'[a].ret \in CreateErrors \cup ConnectErrors
                  \cup SessionErrors
                  \cup {"NotImplementedError", "TLSError",
                        "TLSAuthenticationError", "TLSFingerprintError"}
            /\ HandshakesOf(sessions', a) \subseteq
                 HandshakesOf(sessions, a)
                   \cup {<<Len(sessions'), 0>>}]_vars

C7_Witness ==
  \E a \in Adapters :
    /\ Failed(a)
    /\ adapter[a].ret = "TLSAuthenticationError"
    /\ adapter[a].raised = "TLSAuthenticationError"
    /\ Cardinality(OwnSockets(sockets, a)) = 1

(***************************************************************************)
(* C8 as stated, read with the negotiation itself meeting no protocol or   *)
(* I/O failure: once the handshake of an HTTPTLSConnection has ended, a    *)
(* pinned fingerprint that matched, or with no fingerprint an SRP exchange *)
(* that succeeded, means that connect() succeeded.                         *)
(***************************************************************************)
C8_MatchOrSRPSuffices ==
  \A s \in SessionIds :
    LET a == sessions[s].owner
        g == adapter[a].args
    IN  ( /\ adapter[a].cls = "HTTPTLSConnection"
          /\ adapter[a].tlsConnection # s
          /\ PeerOf(s).ioOk
          /\ \/ Truthy(g.x509Fingerprint) /\ PeerOf(s).fp = g.x509Fingerprint
             \/ /\ ~Truthy(g.x509Fingerprint)
                /\ Truthy(g.username) /\ PeerOf(s).srpOk )
        => sessions[s].status = "ok"

(***************************************************************************)
(* C8 amended: when every check the adapter's arguments ask for passes     *)
(* (the pinned fingerprint, if given, matches; the SRP exchange, if a      *)
(* password pair is given, succeeds) and the negotiation meets no other    *)
(* failure, connect() succeeds: the session is handshaken, and it stays    *)
(* the transport handle until it is closed or a later connect() installs   *)
(* another.                                                                *)
(***************************************************************************)
AllChecksPass(g, peer) ==
  /\ peer.ioOk
  /\ Truthy(g.username) => peer.srpOk
  /\ Truthy(g.x509Fingerprint) => peer.fp = g.x509Fingerprint

C8_AllChecksPassSucceeds ==
  \A s \in SessionIds :
    LET a == sessions[s].owner
    IN  ( /\ adapter[a].cls = "HTTPTLSConnection"
          /\ adapter[a].tlsConnection # s
          /\ AllChecksPass(adapter[a].args, PeerOf(s)) )
        => /\ sessions[s].status = "ok"
           /\ ( /\ ~sessions[s].closed
                 /\ \A t \in SessionIds : sessions[t].owner = a => t <= s )
              => adapter[a].sock = s

C8_Witness ==
  \E s \in SessionIds :
    LET a == sessions[s].owner
    IN  /\ adapter[a].cls = "HTTPTLSConnection"
        /\ Truthy(adapter[a].args.x509Fingerprint)
        /\ PeerOf(s).fp = adapter[a].args.x509Fingerprint
        /\ sessions[s].status = "ok"
        /\ adapter[a].sock = s
        /\ Idle(a) /\ adapter[a].ret = "ok"

(***************************************************************************)
(* C9: a constructed adapter holds the host and the credentials it was     *)
(* given and the port it was given, 443 when none was; until connect() is  *)
(* first invoked on it (directly, or by a send() that finds no socket) it  *)
(* has no transport handle, no socket, no session, and so no handshake.    *)
(***************************************************************************)
C9_ConstructionIsOffline ==
  \A a \in Adapters :
    adapter[a].state = "constructed" =>
      LET g == adapter[a].args
      IN  /\ adapter[a].host = g.host
          /\ adapter[a].port = IF g.port = None THEN "443" ELSE g.port
          /\ adapter[a].username = g.username
          /\ adapter[a].password = g.password
          /\ adapter[a].certChain = g.certChain
          /\ adapter[a].privateKey = g.privateKey
          /\ adapter[a].x509Fingerprint = g.x509Fingerprint
          /\ adapter[a].settings = g.settings
          /\ (adapter[a].pc = "idle" /\ adapter[a].ret = None) =>
               /\ adapter[a].sock = NoSock
               /\ OwnSockets(sockets, a) = {}
               /\ \A s \in SessionIds : sessions[s].owner # a

C9_Witness ==
  \E a \in Adapters :
    /\ Idle(a) /\ adapter[a].ret = None
    /\ adapter[a].cls = "HTTPTLSConnection"
    /\ adapter[a].args.port = None /\ adapter[a].port = "443"
    /\ adapter[a].username = "alice" /\ adapter[a].x509Fingerprint = "fpA"
    /\ sockets = << >> /\ sessions = << >>

(***************************************************************************)
(* C10: an adapter given SRP arguments together with certificate arguments *)
(* is rejected; no adapter holds both kinds of client credential and no    *)
(* handshake carries both.                                                 *)
(***************************************************************************)
BothKinds(g) ==
  /\ Truthy(g.username) \/ Truthy(g.password)
  /\ Truthy(g.certChain) \/ Truthy(g.privateKey)

OwnPairs ==
  /\ \A s, t \in SessionIds : sessions[s].sock = sessions[t].sock => s = t
  /\ \A s \in SessionIds :
       /\ sessions[s].sock \in SocketIds
       /\ sockets[sessions[s].sock].owner = sessions[s].owner
       /\ sessions[s].handshakeOps > 0 =>
            sessions[s].params.x509Fingerprint
              = adapter[sessions[s].owner].args.x509Fingerprint
  /\ \A a \in DOMAIN adapter :
       /\ adapter[a].sock # NoSock =>
            /\ adapter[a].sock \in SessionIds
            /\ sessions[adapter[a].sock].owner = a
       /\ adapter[a].pc # "idle" =>
            /\ adapter[a].lsock \in SocketIds
            /\ sockets[adapter[a].lsock].owner = a
            /\ adapter[a].pc = "handshake" =>
                 /\ adapter[a].tlsConnection \in SessionIds
                 /\ sessions[adapter[a].tlsConnection].owner = a
  /\ \A a, b \in DOMAIN adapter :
       adapter[a].sock # NoSock /\ adapter[a].sock = adapter[b].sock => a = b

StepOfOne(a) ==
  /\ \A b \in DOMAIN adapter \ {a} : adapter'[b] = adapter[b]
  /\ \A k \in SocketIds : sockets[k].owner # a => sockets'[k] = sockets[k]
  /\ \A s \in SessionIds : sessions[s].owner # a => sessions'[s] = sessions[s]
  /\ \A k \in 1..Len(sockets') : k \notin SocketIds => sockets'[k].owner = a
  /\ \A s \in 1..Len(sessions') : s \notin SessionIds => sessions'[s].owner = a

C11_AdaptersIsolated ==
  /\ []OwnPairs
  /\ [][\E a \in DOMAIN adapter : StepOfOne(a)]_vars

C11_Witness ==
  /\ adapter["a1"].pc = "idle" /\ adapter["a1"].ret = "ok"
  /\ adapter["a1"].sock # NoSock
  /\ sessions[adapter["a1"].sock].data
  /\ adapter["a2"].pc = "handshake"
  /\ adapter["a2"].tlsConnection # adapter["a1"].sock
  /\ sessions[adapter["a2"].tlsConnection].sock
       # sessions[adapter["a1"].sock].sock

(***************************************************************************)
(* C12: the hook of the base adapter is abstract.  On an adapter of the    *)
(* base class every connect() that reaches the hook (a session was made    *)
(* and handed to it) ends there raising NotImplementedError; no connect()  *)
(* on it ever returns, no session of it is ever handshaken, and no HTTP    *)
(* byte ever passes through a session of it.                               *)
(***************************************************************************)
IsBase(a) == adapter[a].cls = "HTTPBaseTLSConnection"

HookReached(a) ==
  /\ Len(sessions') = Len(sessions) + 1
  /\ sessions'[Len(sessions')].owner = a
  /\ sessions'[Len(sessions')].hookCalls = 1

C12_BaseHookAbstract ==
  /\ [](\A a \in Adapters :
          IsBase(a) =>
            /\ adapter[a].ret # "ok"
            /\ adapter[a].pc # "handshake"
            /\ \A s \in SessionIds :
                 sessions[s].owner = a =>
                   /\ sessions[s].status = "new"
                   /\ sessions[s].handshakeOps = 0
                   /\ ~sessions[s].data)
  /\ [][\A a \in Adapters :
          IsBase(a) /\ HookReached(a) =>
            /\ adapter'[a].pc = "idle"
            /\ adapter'[a].ret = "NotImplementedError"]_vars

C12_Witness ==
  \E a \in Adapters :
    /\ IsBase(a) /\ Failed(a)
    /\ adapter[a].raised = "NotImplementedError"
    /\ adapter[a].sock # NoSock
    /\ sessions[adapter[a].sock].hookCalls = 1
    /\ sessions[adapter[a].sock].refused

(***************************************************************************)
(* C13: connect() and the hook leave the configuration alone.  After any   *)
(* sequence of connect() calls, returned or raised, the host, the port     *)
(* (default_port for an omitted one), the credentials, the fingerprint and *)
(* the settings of an adapter are those of its construction, at every      *)
(* point of every call; and no step of connect() changes any of them.      *)
(***************************************************************************)
Configuration(self) ==
  [host |-> self.host, port |-> self.port, username |-> self.username,
   password |-> self.password, certChain |-> self.certChain,
   privateKey |-> self.privateKey, x509Fingerprint |-> self.x509Fingerprint,
   settings |-> self.settings]

ConstructedWith(g) ==
  [g EXCEPT !.port = IF g.port = None THEN default_port ELSE g.port]

C13_ConnectKeepsConfiguration ==
  /\ [](\A a \in Adapters :
          adapter[a].state = "constructed" =>
            Configuration(adapter[a]) = ConstructedWith(adapter[a].args))
  /\ [][\A a \in Adapters :
          adapter[a].state = "constructed" =>
            Configuration(adapter'[a]) = Configuration(adapter[a])]_vars

C13_Witness ==
  \E a \in Adapters :
    /\ Idle(a) /\ adapter[a].ret = "ok"
    /\ adapter[a].args.port = "8443" /\ adapter[a].port = "8443"
    /\ adapter[a].password = "secret" /\ adapter[a].x509Fingerprint = "fpA"
    /\ \E s, t \in SessionIds :
         /\ s # t
         /\ sessions[s].owner = a /\ sessions[s].status = "failed"
         /\ sessions[t].owner = a /\ sessions[t].status = "ok"

(***************************************************************************)
(* C14: an adapter constructed with both a password credential and a       *)
(* pinned fingerprint applies both checks.  A connect() on it returns only *)
(* against a server with which the SRP exchange succeeds and whose         *)
(* certificate has the pinned fingerprint; when either check does not      *)
(* pass, the handshake fails and connect() raises.                         *)
(***************************************************************************)
BothSupplied(g) ==
  /\ Truthy(g.username) /\ Truthy(g.password)
  /\ Truthy(g.x509Fingerprint)

C14_BothChecksApply ==
  /\ [](\A s \in SessionIds :
          LET g == adapter[sessions[s].owner].args
          IN  BothSupplied(g) =>
                /\ sessions[s].status = "ok" =>
                     /\ PeerOf(s).srpOk
                     /\ PeerOf(s).fp = g.x509Fingerprint
                /\ ( /\ HandshakeEnded(s)
                     /\ ~PeerOf(s).srpOk \/ PeerOf(s).fp # g.x509Fingerprint )
                   => sessions[s].status = "failed")
  /\ [][\A a \in Adapters :
          ( /\ BothSupplied(adapter[a].args)
            /\ adapter[a].pc = "handshake"
            /\ adapter'[a].pc = "idle" )
          => LET peer == sockets[adapter[a].lsock].peer
             IN  IF peer.srpOk /\ peer.fp = adapter[a].args.x509Fingerprint
                   THEN adapter'[a].ret \in {"ok", "TLSError"}
                   ELSE adapter'[a].ret
                          \in {"TLSError", "TLSAuthenticationError",
                               "TLSFingerprintError"}]_vars

C14_Witness ==
  \E a \in Adapters :
    /\ BothSupplied(adapter[a].args)
    /\ Idle(a) /\ adapter[a].ret = "ok"
    /\ \E s, t \in SessionIds :
         /\ sessions[s].owner = a /\ sessions[s].status = "ok"
         /\ PeerOf(s).srpOk /\ PeerOf(s).fp = "fpA"
         /\ sessions[t].owner = a /\ sessions[t].status = "failed"
         /\ PeerOf(t).srpOk /\ PeerOf(t).ioOk /\ PeerOf(t).fp = "fpB"

(***************************************************************************)
(* C15: abort by close terminates.  When the raw socket is closed while    *)
(* connect() is blocked on it, in sock.connect() or in the handshake, and  *)
(* blocked calls are served fairly, the blocked call fails with the error  *)
(* of a closed socket and connect() ends raising it: it neither hangs nor  *)
(* returns.                                                                *)
(***************************************************************************)
AbortedWhileBlocked(a) ==
  /\ adapter[a].pc \in {"sock_connect", "handshake"}
  /\ sockets[adapter[a].lsock].state = "closed"

C15_AbortByCloseTerminates ==
  \A a \in Adapters :
    AbortedWhileBlocked(a) ~> (Failed(a) /\ adapter[a].raised \in AbortErrors)

C15_Witness ==
  \E a \in Adapters :
    /\ Failed(a) /\ adapter[a].raised \in AbortErrors
    /\ \E k \in SocketIds :
         /\ sockets[k].owner = a /\ sockets[k].state = "closed"
         /\ \A s \in SessionIds : sessions[s].sock # k
    /\ \E s \in SessionIds :
         /\ sessions[s].owner = a /\ sessions[s].status = "failed"
         /\ sockets[sessions[s].sock].state = "closed"
         /\ AllChecksPass(adapter[a].args, PeerOf(s))

(***************************************************************************)
(* C16: the transport handle is a Secure Session, never a raw socket, and  *)
(* the hook is handed the installed session.  The handle is None or a      *)
(* session that wraps a raw socket of the adapter on which sock.connect()  *)
(* has returned; while the hook runs, its argument is the session that is  *)
(* the handle at that moment, over the socket of this connect(); and the   *)
(* step that invokes the hook starts from a connect() blocked in           *)
(* sock.connect() and ends with the socket connected, wrapped by the new   *)
(* session, and that session installed (connect, wrap, install, hook).     *)
(***************************************************************************)
HandleIsSession(a) ==
  adapter[a].sock # NoSock =>
    /\ adapter[a].sock \in SessionIds
    /\ sessions[adapter[a].sock].owner = a
    /\ sessions[adapter[a].sock].hookCalls = 1
    /\ sessions[adapter[a].sock].sock \in SocketIds
    /\ sockets[sessions[adapter[a].sock].sock].state \in {"connected", "closed"}

HookArgumentIsHandle(a) ==
  adapter[a].pc = "handshake" =>
    /\ adapter[a].sock # NoSock
    /\ adapter[a].tlsConnection = adapter[a].sock
    /\ sessions[adapter[a].sock].sock = adapter[a].lsock
    /\ sockets[adapter[a].lsock].state = "connected"

C16_HookGetsInstalledSession ==
  /\ [](\A a \in Adapters : HandleIsSession(a) /\ HookArgumentIsHandle(a))
  /\ [][\A a \in Adapters :
          HookReached(a) =>
            /\ adapter[a].pc = "sock_connect"
            /\ sockets[adapter[a].lsock].state = "new"
            /\ sockets'[adapter[a].lsock].state = "connected"
            /\ sessions'[Len(sessions')].sock = adapter[a].lsock
            /\ adapter'[a].sock = Len(sessions')]_vars

C16_Witness ==
  \E a \in Adapters :
    /\ adapter[a].pc = "handshake"
    /\ adapter[a].tlsConnection = 2
    /\ adapter[a].sock = 2
    /\ sessions[1].owner = a /\ sessions[1].status = "failed"
    /\ sessions[2].status = "handshaking"
    /\ sockets[sessions[2].sock].state = "connected"

(***************************************************************************)
(* C17: a failed sock.connect() changes nothing but the outcome.  In the   *)
(* step in which sock.connect() raises, no session is constructed, no hook *)
(* is invoked and no handshake issued, the transport handle keeps the      *)
(* value it had before the call, and connect() ends raising that error;    *)
(* and a socket whose connect failed is never wrapped by a session.        *)
(***************************************************************************)
TransportFails(a) ==
  /\ adapter[a].pc = "sock_connect"
  /\ sockets[adapter[a].lsock].state = "new"
  /\ sockets'[adapter[a].lsock].state = "failed"

C17_TransportFailureKeepsHandle ==
  /\ [](\A k \in SocketIds :
          sockets[k].state = "failed" =>
            \A s \in SessionIds : sessions[s].sock # k)
  /\ [][\A a \in Adapters :
          TransportFails(a) =>
            /\ sessions' = sessions
            /\ adapter'[a].sock = adapter[a].sock
            /\ adapter'[a].pc = "idle"
            /\ adapter'[a].ret \in ConnectErrors]_vars

C17_Witness ==
  \E a \in Adapters :
    /\ Failed(a) /\ adapter[a].ret \in ConnectErrors
    /\ adapter[a].sock = 1
    /\ sessions[1].owner = a /\ sessions[1].status = "ok"
    /\ Len(sessions) = 1
    /\ Len(sockets) = 2 /\ sockets[2].owner = a /\ sockets[2].state = "failed"

====
